---- MODULE Spec2Model ----
(***************************************************************************)
(* Model of github-ccd.py: a sequential script that pages through an       *)
(* organization's repository listing (get_repositories), pages through     *)
(* each repository's recent commits (get_recent_contributors), folds the   *)
(* per-repository contributor sets into contributors_repo_count (main),    *)
(* prints a summary line and writes a CSV (write_to_csv).                  *)
(*                                                                         *)
(* The GitHub server is the environment: every request is answered by a    *)
(* page of items, an empty page, or a failure (raise_for_status raising).  *)
(* Strings that the code inspects character by character (repository       *)
(* names, the exclude filter) are sequences of one-character strings.      *)
(* Output produced only under --debug does not influence any other state   *)
(* and is left out.                                                        *)
(***************************************************************************)
EXTENDS Integers, Sequences, FiniteSets, TLC

VARIABLES
    pc,                       \* position of the single thread of control
    exclude_filter,           \* args.exclude
    repos_page,               \* get_repositories: page
    repos,                    \* get_repositories: repos / main: repos
    ri,                       \* main: 1-based index of `repo` in `for repo in repos`
    commits_page,             \* get_recent_contributors: page
    contributors,             \* get_recent_contributors: contributors (a set)
    contributors_repo_count,  \* main: dict, kept as its insertion-ordered items
    stdout,                   \* lines printed without --debug
    csv,                      \* contents of args.output_csv
    error,                    \* the exception that ended the run, if any
    repo_requests,            \* history: repository-listing requests issued
    listed,                   \* history: repository names served, in order
    commit_requests,          \* history: commit-listing requests of the current call
    processed,                \* history: contributor set returned for repos[i]
    authored,                 \* history: logins of the commits served to the current call
    seen                      \* history: logins in order of first authored commit

vars == <<pc, exclude_filter, repos_page, repos, ri, commits_page, contributors,
          contributors_repo_count, stdout, csv, error,
          repo_requests, listed, commit_requests, processed, authored, seen>>

(***************************************************************************)
(* Bounds of the environment.                                              *)
(***************************************************************************)
\* Largest page the server serves (the code asks for per_page=100 and never
\* looks at the size of a page except to test it for emptiness).
PerPage == 2
\* Most repositories the organization's listing serves in one run.
MaxRepos == 2
\* Most commits one repository's listing serves in one call.
MaxCommits == 2

\* Repository names of the run model.
api == <<"a", "p", "i">>
api_legacy == <<"a", "p", "i", "-", "l", "e", "g", "a", "c", "y">>
web == <<"W", "e", "b">>
RepoNames == {api, api_legacy, web}
\* Values of --exclude in the run model ('' is the default).
Excludes == {<<>>, <<"L", "e", "g", "a", "c", "y">>}

\* Names and filters of the get_repositories model: every case pairing of
\* one and two letter strings over a, b.
FilterNames == {<<"a">>, <<"A">>, <<"b">>, <<"a", "b">>, <<"A", "B">>,
                <<"b", "a">>, <<"B", "a">>, <<"a", "a">>}
FilterExcludes == {<<>>, <<"a">>, <<"A">>, <<"B">>, <<"a", "b">>, <<"A", "b">>,
                   <<"b", "A">>}

Logins == {"alice", "bob"}
\* commit['author'] is None
NullAuthor == "<null>"
\* the commit object has no 'author' key
MissingAuthor == "<missing>"
Commits == Logins \cup {NullAuthor, MissingAuthor}

\* No file operation has touched args.output_csv.
Untouched == <<<<"<untouched>">>>>
Header == <<"Developer", "Number of Repos">>

(***************************************************************************)
(* Pure helpers.                                                           *)
(***************************************************************************)
UpperCase == <<"A", "B", "C", "D", "E", "F", "G", "H", "I", "J", "K", "L", "M",
               "N", "O", "P", "Q", "R", "S", "T", "U", "V", "W", "X", "Y", "Z">>
LowerCase == <<"a", "b", "c", "d", "e", "f", "g", "h", "i", "j", "k", "l", "m",
               "n", "o", "p", "q", "r", "s", "t", "u", "v", "w", "x", "y", "z">>

\* str.lower() on one character
LowerChar(c) ==
    IF \E i \in 1..Len(UpperCase) : UpperCase[i] = c
    THEN LowerCase[CHOOSE i \in 1..Len(UpperCase) : UpperCase[i] = c]
    ELSE c

\* str.lower()
lower(s) == [i \in 1..Len(s) |-> LowerChar(s[i])]

\* Python's `sub in s` on strings
StrIn(sub, s) ==
    \E k \in 0..(Len(s) - Len(sub)) :
        \A i \in 1..Len(sub) : s[k + i] = sub[i]

\* A filter that compares without lower-casing.
IsExcluded_CaseSensitive(ef, repo_name) ==
    ef # <<>> /\ StrIn(ef, repo_name)

\* line 35: `exclude_filter and exclude_filter.lower() in repo_name.lower()`
IsExcluded(ef, repo_name) ==
    ef # <<>> /\ StrIn(lower(ef), lower(repo_name))

\* lines 32-37: the for loop over one page, appending to repos
RECURSIVE AppendPage(_, _, _)
AppendPage(ef, result, acc) ==
    IF result = <<>> THEN acc
    ELSE AppendPage(ef, Tail(result),
                    IF IsExcluded(ef, Head(result)) THEN acc
                    ELSE Append(acc, Head(result)))

\* All sequences over S of length lo..hi
SeqsOf(S, lo, hi) == UNION {[1..n -> S] : n \in lo..hi}

RECURSIVE SumItems(_)
SumItems(log) ==
    IF log = <<>> THEN 0 ELSE Head(log).items + SumItems(Tail(log))

Min(a, b) == IF a < b THEN a ELSE b

\* The orders in which iterating a Python set of strings can yield its
\* elements (the order follows the per-process randomized string hashes).
IterationOrders(S) ==
    {o \in [1..Cardinality(S) -> S] : \A d \in S : \E i \in DOMAIN o : o[i] = d}

HasKey(m, d) == \E i \in 1..Len(m) : m[i][1] = d
\* dict.get(d, 0)
Get(m, d) == IF HasKey(m, d) THEN m[CHOOSE i \in 1..Len(m) : m[i][1] = d][2] ELSE 0
Keys(m) == {m[i][1] : i \in 1..Len(m)}

\* line 94: contributors_repo_count[contributor] = ....get(contributor, 0) + 1
\* (a new key goes to the end of the dict, an existing key keeps its place)
Increment(m, d) ==
    IF HasKey(m, d)
    THEN [i \in 1..Len(m) |-> IF m[i][1] = d THEN <<d, m[i][2] + 1>> ELSE m[i]]
    ELSE Append(m, <<d, 1>>)

\* lines 93-94: the for loop over one contributor set, in iteration order
RECURSIVE Accumulate(_, _)
Accumulate(m, order) ==
    IF order = <<>> THEN m
    ELSE Accumulate(Increment(m, Head(order)), Tail(order))

\* line 59: `if commit['author']:` (None is falsy, a login object is truthy)
HasAuthor(commit) == commit \in Logins

\* lines 58-60: the for loop over one page of commits; a commit without an
\* 'author' key makes commit['author'] raise KeyError
RECURSIVE CollectPage(_, _)
CollectPage(commits, acc) ==
    IF commits = <<>> THEN [raised |-> FALSE, contributors |-> acc]
    ELSE IF Head(commits) = MissingAuthor
         THEN [raised |-> TRUE, contributors |-> acc]
         ELSE CollectPage(Tail(commits),
                          IF HasAuthor(Head(commits)) THEN acc \cup {Head(commits)}
                          ELSE acc)

\* history: logins in order of their first authored commit
RECURSIVE FirstSeen(_, _)
FirstSeen(commits, acc) ==
    IF commits = <<>> THEN acc
    ELSE FirstSeen(Tail(commits),
                   IF Head(commits) \in Logins /\ \A i \in 1..Len(acc) : acc[i] # Head(commits)
                   THEN Append(acc, Head(commits))
                   ELSE acc)

\* lines 71-73: the rows csv.writer writes
CsvRows(m) == <<Header>> \o [i \in 1..Len(m) |-> <<m[i][1], m[i][2]>>]

(***************************************************************************)
(* State after argument parsing and line 89, entering get_repositories.    *)
(***************************************************************************)
InitWith(ExcludeSet) ==
    /\ pc = "list"
    /\ exclude_filter \in ExcludeSet
    /\ repos_page = 1
    /\ repos = <<>>
    /\ ri = 0
    /\ commits_page = 1
    /\ contributors = {}
    /\ contributors_repo_count = <<>>
    /\ stdout = <<>>
    /\ csv = Untouched
    /\ error = "none"
    /\ repo_requests = <<>>
    /\ listed = <<>>
    /\ commit_requests = <<>>
    /\ processed = <<>>
    /\ authored = {}
    /\ seen = <<>>

Init == InitWith(Excludes)

\* An uncaught exception leaves main: the process ends.
Abort(e) ==
    /\ pc' = "aborted"
    /\ error' = e

\* main, lines 91-92: `for repo in R` moves on from position k, calling
\* get_recent_contributors for the next repository or leaving the loop.
MainLoop(R, k) ==
    IF k < Len(R)
    THEN /\ pc' = "collect"
         /\ ri' = k + 1
         /\ commits_page' = 1
         /\ contributors' = {}
         /\ commit_requests' = <<>>
         /\ authored' = {}
    ELSE /\ pc' = "summary"
         /\ ri' = k
         /\ UNCHANGED <<commits_page, contributors, commit_requests, authored>>

(***************************************************************************)
(* get_repositories: one iteration of `while True`, lines 18-42.           *)
(***************************************************************************)
\* A listing failure that is not caught and leaves main.
ReposRequestFails_Propagates ==
    /\ repo_requests' = Append(repo_requests, [page |-> repos_page, items |-> 0, ok |-> FALSE])
    /\ Abort("HttpError")
    /\ UNCHANGED <<exclude_filter, repos_page, repos, ri, commits_page, contributors,
                   contributors_repo_count, stdout, csv, listed, commit_requests,
                   processed, authored,
                   seen>>

\* A handler that prints the error and goes round the loop again: the same
\* page is requested once more.
ListingError_Retries ==
    /\ stdout' = Append(stdout, [kind |-> "error"])
    /\ UNCHANGED <<pc, ri, commits_page, contributors, commit_requests, authored>>

\* lines 40-42: except RequestException: print the error, break; then line 47
\* returns repos to main
ListingError ==
    /\ stdout' = Append(stdout, [kind |-> "error"])
    /\ MainLoop(repos, 0)

\* lines 19-21 with the request raising
ReposRequestFails ==
    /\ repo_requests' = Append(repo_requests, [page |-> repos_page, items |-> 0, ok |-> FALSE])
    /\ ListingError
    /\ UNCHANGED <<exclude_filter, repos_page, repos, contributors_repo_count, csv,
                   error, listed, processed, seen>>

\* An empty page that does not end the loop: the next page is requested.
ReposPageEmpty_Continues ==
    /\ repo_requests' = Append(repo_requests, [page |-> repos_page, items |-> 0, ok |-> TRUE])
    /\ repos_page' = repos_page + 1
    /\ UNCHANGED <<pc, exclude_filter, repos, ri, commits_page, contributors,
                   contributors_repo_count, stdout, csv, error, listed,
                   commit_requests, processed, authored,
                   seen>>

\* lines 29-30: an empty page; break, return repos (line 47)
ReposPageEmpty ==
    /\ repo_requests' = Append(repo_requests, [page |-> repos_page, items |-> 0, ok |-> TRUE])
    /\ MainLoop(repos, 0)
    /\ UNCHANGED <<exclude_filter, repos_page, repos, contributors_repo_count, stdout,
                   csv, error, listed, processed, seen>>

\* lines 32-39: a page of repositories; filter, append, page += 1
ReposPageItems(result) ==
    /\ repo_requests' = Append(repo_requests,
                               [page |-> repos_page, items |-> Len(result), ok |-> TRUE])
    /\ listed' = listed \o result
    /\ repos' = AppendPage(exclude_filter, result, repos)
    /\ repos_page' = repos_page + 1
    /\ UNCHANGED <<pc, exclude_filter, ri, commits_page, contributors,
                   contributors_repo_count, stdout, csv, error, commit_requests,
                   processed, authored,
                   seen>>

get_repositories(Names) ==
    /\ pc = "list"
    /\ \/ ReposRequestFails
       \/ ReposPageEmpty
       \/ \E result \in SeqsOf(Names, 1, Min(PerPage, MaxRepos - Len(listed))) :
              ReposPageItems(result)

(***************************************************************************)
(* get_recent_contributors: one iteration of `while True`, lines 53-66.    *)
(***************************************************************************)
\* A commit-listing failure handled like the listing's: stop paginating and
\* return what was collected.
CommitsRequestFails_Swallowed ==
    /\ commit_requests' = Append(commit_requests,
                                 [page |-> commits_page, items |-> 0, ok |-> FALSE])
    /\ pc' = "accumulate"
    /\ UNCHANGED <<exclude_filter, repos_page, repos, ri, commits_page, contributors,
                   contributors_repo_count, stdout, csv, error, repo_requests, listed,
                   processed, authored,
                   seen>>

\* line 55 raises; nothing catches it up to main
CommitsRequestFails ==
    /\ commit_requests' = Append(commit_requests,
                                 [page |-> commits_page, items |-> 0, ok |-> FALSE])
    /\ Abort("HttpError")
    /\ UNCHANGED <<exclude_filter, repos_page, repos, ri, commits_page, contributors,
                   contributors_repo_count, stdout, csv, repo_requests, listed,
                   processed, authored,
                   seen>>

\* lines 56-57 and 66: an empty page; break, return contributors
CommitsPageEmpty ==
    /\ commit_requests' = Append(commit_requests,
                                 [page |-> commits_page, items |-> 0, ok |-> TRUE])
    /\ pc' = "accumulate"
    /\ UNCHANGED <<exclude_filter, repos_page, repos, ri, commits_page, contributors,
                   contributors_repo_count, stdout, csv, error, repo_requests, listed,
                   processed, authored,
                   seen>>

\* lines 58-63: a page of commits; collect the authors, page += 1
CommitsPageItems(commits) ==
    LET r == CollectPage(commits, contributors) IN
    /\ commit_requests' = Append(commit_requests,
                                 [page |-> commits_page, items |-> Len(commits), ok |-> TRUE])
    /\ contributors' = r.contributors
    /\ authored' = authored \cup {commits[i] : i \in {j \in 1..Len(commits) : HasAuthor(commits[j])}}
    /\ IF r.raised
       THEN /\ Abort("KeyError")
            /\ UNCHANGED <<commits_page, seen>>
       ELSE /\ commits_page' = commits_page + 1
            /\ seen' = FirstSeen(commits, seen)
            /\ UNCHANGED <<pc, error>>
    /\ UNCHANGED <<exclude_filter, repos_page, repos, ri, contributors_repo_count,
                   stdout, csv, repo_requests, listed, processed>>

get_recent_contributors ==
    /\ pc = "collect"
    /\ \/ CommitsRequestFails
       \/ CommitsPageEmpty
       \/ \E commits \in SeqsOf(Commits, 1,
                                Min(PerPage, MaxCommits - SumItems(commit_requests))) :
              CommitsPageItems(commits)

(***************************************************************************)
(* main, lines 93-94: the returned set is folded into the counts, then the *)
(* for loop of line 91 moves on.                                           *)
(***************************************************************************)
accumulate ==
    /\ pc = "accumulate"
    /\ \E order \in IterationOrders(contributors) :
           contributors_repo_count' = Accumulate(contributors_repo_count, order)
    /\ processed' = Append(processed, contributors)
    /\ MainLoop(repos, ri)
    /\ UNCHANGED <<exclude_filter, repos_page, repos, stdout, csv, error,
                   repo_requests, listed, seen>>

(***************************************************************************)
(* main, line 98: the summary line.                                        *)
(***************************************************************************)
print_summary ==
    /\ pc = "summary"
    /\ stdout' = Append(stdout, [kind |-> "summary", count |-> Len(contributors_repo_count)])
    /\ pc' = "write"
    /\ UNCHANGED <<exclude_filter, repos_page, repos, ri, commits_page, contributors,
                   contributors_repo_count, csv, error, repo_requests, listed,
                   commit_requests, processed, authored,
                   seen>>

(***************************************************************************)
(* write_to_csv, lines 68-73, called at line 99.                           *)
(***************************************************************************)
\* open(filename, 'w') succeeds: the file is replaced by header and rows
CsvWritten ==
    /\ csv' = CsvRows(contributors_repo_count)
    /\ pc' = "done"
    /\ UNCHANGED error

\* open(filename, 'w') raises IOError (unwritable path): nothing is written
CsvOpenFails ==
    /\ Abort("IOError")
    /\ UNCHANGED csv

write_to_csv ==
    /\ pc = "write"
    /\ \/ CsvWritten
       \/ CsvOpenFails
    /\ UNCHANGED <<exclude_filter, repos_page, repos, ri, commits_page, contributors,
                   contributors_repo_count, stdout, repo_requests, listed,
                   commit_requests, processed, authored,
                   seen>>

Next ==
    \/ get_repositories(RepoNames)
    \/ get_recent_contributors
    \/ accumulate
    \/ print_summary
    \/ write_to_csv

Spec == Init /\ [][Next]_vars

\* The interpreter keeps executing the single thread until it ends. The
\* same run over two repository names.
FairNames == {api, api_legacy}
NextFair ==
    \/ get_repositories(FairNames)
    \/ get_recent_contributors
    \/ accumulate
    \/ print_summary
    \/ write_to_csv
FairSpec == Init /\ [][NextFair]_vars /\ WF_vars(NextFair)

\* get_repositories alone, over the exhaustive name and filter sets.
InitFilter == InitWith(FilterExcludes)
NextFilter == get_repositories(FilterNames)
SpecFilter == InitFilter /\ [][NextFilter]_vars

Last(q) == q[Len(q)]
Summaries == {i \in 1..Len(stdout) : stdout[i].kind = "summary"}
Final == pc \in {"done", "aborted"}

TypeOK ==
    /\ pc \in {"list", "collect", "accumulate", "summary", "write", "done", "aborted"}
    /\ error \in {"none", "HttpError", "KeyError", "IOError"}
    /\ contributors \subseteq Logins
    /\ ri \in 0..Len(repos)

(***************************************************************************)
(* Properties.                                                             *)
(***************************************************************************)

\* The names of the repositories whose returned contributor set held d.
ReposWith(d) == {repos[i] : i \in {j \in 1..Len(processed) : d \in processed[j]}}

\* C1: after each repository has been folded in, and so at the CSV write,
\* contributors_repo_count[d] is the number of distinct repository names
\* processed so far whose contributor set contained d, and a login that
\* appeared in no repository is not a key.
C1_CountIsDistinctRepos ==
    \A d \in Logins :
        /\ Get(contributors_repo_count, d) = Cardinality(ReposWith(d))
        /\ HasKey(contributors_repo_count, d) <=> ReposWith(d) # {}

\* What the fold does compute: one per position of repos whose set held d.
CountIsListPositions ==
    \A d \in Logins :
        /\ Get(contributors_repo_count, d) =
               Cardinality({j \in 1..Len(processed) : d \in processed[j]})
        /\ HasKey(contributors_repo_count, d) <=> \E j \in 1..Len(processed) : d \in processed[j]
        /\ Cardinality({i \in 1..Len(contributors_repo_count) :
                            contributors_repo_count[i][1] = d}) <= 1

\* C2: a failed commit-listing request is the last request of the run: the
\* run is aborted by it, the output file is untouched, no summary line has
\* been printed, the repositories before the failing one are the only ones
\* processed, and nothing further can happen.
C2_CommitFailureAborts ==
    \A i \in 1..Len(commit_requests) :
        ~commit_requests[i].ok =>
            /\ i = Len(commit_requests)
            /\ pc = "aborted"
            /\ error = "HttpError"
            /\ csv = Untouched
            /\ Summaries = {}
            /\ Len(processed) = ri - 1
            /\ ~ENABLED Next

C2_Witness ==
    /\ error = "HttpError"
    /\ ri = 2
    /\ contributors_repo_count # <<>>
    /\ Len(commit_requests) = 2

\* Two characters that are the same letter in either case.
SameLetter(c, d) ==
    \/ c = d
    \/ \E k \in 1..Len(UpperCase) : {c, d} = {UpperCase[k], LowerCase[k]}

\* sub occurs in s at some position, case ignored.
OccursIgnoringCase(sub, s) ==
    \E i \in 1..(Len(s) - Len(sub) + 1) :
        \A j \in 1..Len(sub) : SameLetter(s[i + j - 1], sub[j])

Kept(n) == exclude_filter = <<>> \/ ~OccursIgnoringCase(exclude_filter, n)

\* C3: a failed repository-listing request is the last listing request, it
\* ends get_repositories with exactly the non-excluded names of the pages
\* before it, and it does not abort the run: collection goes over that list
\* and a completed run has written the CSV.
C3_ListingFailureIsSoft ==
    \A i \in 1..Len(repo_requests) :
        ~repo_requests[i].ok =>
            /\ i = Len(repo_requests)
            /\ repo_requests[i].page = i
            /\ pc # "list"
            /\ Len(listed) = SumItems(SubSeq(repo_requests, 1, i - 1))
            /\ repos = SelectSeq(listed, Kept)
            /\ error = "HttpError" =>
                   commit_requests # <<>> /\ ~Last(commit_requests).ok
            /\ pc \in {"collect", "accumulate"} => ri \in 1..Len(repos)
            /\ pc \in {"summary", "write", "done"} => Len(processed) = Len(repos)
            /\ pc = "aborted" => commit_requests # <<>> \/ Summaries # {}
            /\ pc = "done" => csv = CsvRows(contributors_repo_count)

C3_Witness ==
    /\ Len(repo_requests) = 2
    /\ ~repo_requests[2].ok
    /\ repos # <<>>
    /\ repos # listed
    /\ pc = "done"
    /\ Len(csv) > 1

\* Pages 1, 2, 3, ... in order, each once; with no failed request every page
\* but the last is non-empty, and once the loop has stopped the last page
\* requested is the empty one.
Paginated(log, running) ==
    /\ \A i \in 1..Len(log) : log[i].page = i
    /\ (\A i \in 1..Len(log) : log[i].ok) =>
           /\ \A i \in 1..(Len(log) - 1) : log[i].items > 0
           /\ running => \A i \in 1..Len(log) : log[i].items > 0
           /\ (~running /\ log # <<>>) => Last(log).items = 0

\* C4: in both pagination loops, when no request fails, pages are requested
\* in order 1, 2, 3, ... each once and requesting stops exactly after the
\* first empty page (P non-empty pages make P+1 requests).
C4_StopsAfterFirstEmptyPage ==
    /\ Paginated(repo_requests, pc = "list")
    /\ pc = "list" => repos_page = Len(repo_requests) + 1
    /\ Paginated(commit_requests, pc = "collect")
    /\ pc = "collect" => commits_page = Len(commit_requests) + 1

\* The same for runs in which no commit lacks its author field.
PaginatedUnlessKeyError ==
    error # "KeyError" => C4_StopsAfterFirstEmptyPage

\* C5: repos is exactly the subsequence, in listing order, of the names
\* served so far that the filter keeps: the filter is empty or does not
\* occur in the name, case ignored.
C5_ReposIsKeptSubsequence ==
    repos = SelectSeq(listed, Kept)

C5_Witness ==
    /\ pc # "list"
    /\ Len(listed) = 2
    /\ Len(repos) = 1
    /\ \E i \in 1..2 : ~Kept(listed[i]) /\ ~StrIn(exclude_filter, listed[i])

\* C6: a commit whose author is null or whose author field is missing is
\* skipped without an error, and the collected set is exactly the set of
\* logins of the commits served that carry an author.
C6_AuthorlessCommitsSkipped ==
    /\ error # "KeyError"
    /\ contributors = authored

\* The null-author half: unless a commit lacks the field, the collected set
\* is exactly the logins of the authored commits, and each returned set is
\* folded in as collected.
NullAuthorSkipped ==
    /\ error # "KeyError" => contributors = authored
    /\ contributors \subseteq Logins
    /\ Keys(contributors_repo_count) \subseteq Logins
    /\ pc = "accumulate" => contributors = authored

\* C7: the written file is the header followed by one row per developer in
\* the order in which their first commits were seen.
C7_RowsInFirstSeenOrder ==
    pc = "done" =>
        /\ csv[1] = Header
        /\ Len(csv) = Len(seen) + 1
        /\ \A i \in 1..Len(seen) :
               csv[i + 1] = <<seen[i], Get(contributors_repo_count, seen[i])>>

\* Rows follow the order of the first repository a developer was found in.
RowsAreTheDictItems ==
    pc = "done" =>
        /\ csv[1] = Header
        /\ {csv[i][1] : i \in 2..Len(csv)} = {seen[i] : i \in 1..Len(seen)}
        /\ Len(csv) = Len(seen) + 1

\* C8: the summary line is printed only after the CSV has been written.
C8_SummaryAfterCsv ==
    Summaries # {} => csv # Untouched

\* What the code does: the summary precedes the write.
CsvAfterSummary ==
    csv # Untouched => Summaries # {}

\* C9: when page 1 of the repository listing is empty, that request is the
\* only listing request, no commit listing is requested, the map stays
\* empty, a written CSV is the header row alone and the summary reports 0.
C9_EmptyOrganization ==
    (repo_requests # <<>> /\ repo_requests[1].ok /\ repo_requests[1].items = 0) =>
        /\ Len(repo_requests) = 1
        /\ commit_requests = <<>>
        /\ ri = 0
        /\ processed = <<>>
        /\ contributors_repo_count = <<>>
        /\ pc \in {"summary", "write", "done", "aborted"}
        /\ \A i \in Summaries : stdout[i].count = 0
        /\ csv # Untouched => csv = <<Header>>
        /\ pc = "done" =>
               csv = <<Header>> /\ stdout = <<[kind |-> "summary", count |-> 0]>>
        /\ pc = "aborted" => error = "IOError"

C9_Witness ==
    /\ repo_requests = <<[page |-> 1, items |-> 0, ok |-> TRUE]>>
    /\ pc = "done"
    /\ csv = <<Header>>

\* A request that failed is the last one of its loop: it is not issued again.
NoRetry ==
    /\ \A i \in 1..Len(repo_requests) :
           /\ repo_requests[i].page = i
           /\ ~repo_requests[i].ok => i = Len(repo_requests)
    /\ \A i \in 1..Len(commit_requests) :
           /\ commit_requests[i].page = i
           /\ ~commit_requests[i].ok => i = Len(commit_requests)

\* The ways a run ends.
FinalStates ==
    /\ pc = "done" => error = "none" /\ csv = CsvRows(contributors_repo_count)
    /\ pc = "aborted" =>
           /\ csv = Untouched
           /\ \/ error = "HttpError" /\ ~Last(commit_requests).ok
              \/ error = "KeyError" /\ Last(commit_requests).items > 0
              \/ error = "IOError" /\ Summaries # {}
    /\ Final => ~ENABLED Next
    /\ ~Final => error = "none" /\ ENABLED Next

\* C10 as stated, on the runs in which every commit has its author field:
\* a run that is aborted was aborted by a failed commit-listing request.
C10_AbortOnlyByCommitFailure ==
    (pc = "aborted" /\ error # "KeyError") => error = "HttpError"

\* C10 as amended: every run ends, Completed with the CSV written or
\* Aborted by its first uncaught exception: a failed commit-listing request,
\* a commit without author field, or a failed CSV write; no failed request
\* is issued again.
C10_RunEnds ==
    /\ <>Final
    /\ [](NoRetry /\ FinalStates)

C10_Witness ==
    /\ pc = "aborted"
    /\ error = "IOError"
    /\ Len(repo_requests) = 3
    /\ contributors_repo_count # <<>>

====
